---- MODULE Spec2Model ----
(***************************************************************************)
(* A model of iohub: the Micro-Manager OME-TIFF reader                     *)
(* (src/iohub/multipagetiff_v2.py) and the OME-NGFF node hierarchy         *)
(* (src/iohub/ngff.py).                                                    *)
(***************************************************************************)
EXTENDS Integers, Sequences, FiniteSets, TLC

(***************************************************************************)
(* Bounds of the model.                                                    *)
(***************************************************************************)
\* pages read by one index build, over all files
MaxPages == 2
\* create_well calls in one behaviour
MaxWellCalls == 3
\* the largest row_index or col_index a caller supplies
MaxIndex == 1
\* append_channel calls in one behaviour
MaxAppends == 2
\* the interpreter's recursion limit (sys.getrecursionlimit()), scaled down
RecursionLimit == 4

(***************************************************************************)
(* The reader: src/iohub/multipagetiff_v2.py                               *)
(***************************************************************************)
VARIABLES
    striped,          \* input: the pages carry a StripOffsets tag (FALSE: tiled files)
    pc,               \* "gather": __init__ is in _gather_index_maps;
                      \* "ready": the reader is constructed; "failed": __init__ raised
    file,             \* index (1-based) of the file the build loop is reading
    page,             \* index of the next page of that file
    npages,           \* pages read so far, over all files
    tiff_pages,       \* the pages read so far, in order: what the files hold
    coord_map,        \* self.coord_map: coordinate -> <<file, page, offset>>
    positions,        \* self.positions
    frames,           \* self.frames
    channels,         \* self.channels
    slices,           \* self.slices
    height,           \* self.height
    width,            \* self.width
    position_arrays,  \* self.position_arrays: position -> array
    warned            \* the warnings the reader has issued, in order

rvars == <<striped, pc, file, page, npages, tiff_pages, coord_map, positions,
           frames, channels, slices, height, width, position_arrays, warned>>

(***************************************************************************)
(* The NGFF nodes: src/iohub/ngff.py                                       *)
(***************************************************************************)
VARIABLES
    store,            \* what is on disk at store_path
    node,             \* the root node the last successful open_ome_zarr returned
    last,             \* the last call: its arguments, the state before it, its outcome
    ncalls,           \* create_well and create_position calls made so far
    nappends,         \* append_channel calls made so far
    held              \* the Position nodes the caller holds of the open plate, by
                      \* path: [node, shared]; shared: the node's channel name
                      \* list is the plate's list object (its contents are
                      \* node.channel_names of the plate, and the node's own
                      \* channel_names field is not in use)

nvars == <<store, node, last, ncalls, nappends, held>>

vars == <<rvars, nvars>>

\* the value _get_byte_offset returns when no tag name contains 'StripOffset'
\* (None); an offset n read from a tag is <<n>>
NoOffset == << >>

\* the coordinate axes of the datasets explored: positions, frames, channels, slices
PositionIds == 0..1
Coords == PositionIds \X (0..1) \X (0..1) \X (0..2)

\* the strip offset written in the tags of page `pg` of a file (pages do not overlap)
StripOffset(pg) == 8 * (pg + 1)

\* _get_byte_offset(tiff_file, page): the first tag whose name contains
\* 'StripOffset', or None when the loop ends without one
GetByteOffset(tagged, pg) == IF tagged THEN <<StripOffset(pg)>> ELSE NoOffset

\* PutEntry with the channel and frame coordinates exchanged in the key
PutEntrySwappedKey(map, coord, entry) ==
    LET key == <<coord[1], coord[3], coord[2], coord[4]>>
    IN  [k \in DOMAIN map \cup {key} |-> IF k = key THEN entry ELSE map[k]]

\* self.coord_map[tuple(coord)] = (file, page, offset)
PutEntry(map, coord, entry) ==
    [k \in DOMAIN map \cup {coord} |-> IF k = coord THEN entry ELSE map[k]]

\* the four "update dimensions" statements of _gather_index_maps
UpdPositions(coord, cur) == IF coord[1] > cur THEN coord[1] ELSE cur

UpdFrames(coord, cur) == IF coord[2] > cur THEN coord[2] ELSE cur

UpdChannels(coord, cur) == IF coord[3] > cur THEN coord[3] ELSE cur

UpdSlices(coord, cur) == IF coord[4] > cur THEN coord[3] ELSE cur

Max(S) == CHOOSE m \in S : \A x \in S : x <= m

\* GetDimensions taking the maxima over the keys of every position
GetDimensionsGlobal(map, position) ==
    << Max({0} \cup {k[2] : k \in DOMAIN map}),
       Max({0} \cup {k[3] : k \in DOMAIN map}),
       Max({0} \cup {k[4] : k \in DOMAIN map}) >>

\* _get_dimensions(position): the running maxima of t, c, z over the keys of
\* that position, each starting from 0
GetDimensions(map, position) ==
    LET own == {k \in DOMAIN map : k[1] = position}
    IN  << Max({0} \cup {k[2] : k \in own}),
           Max({0} \cup {k[3] : k \in own}),
           Max({0} \cup {k[4] : k \in own}) >>

\* _get_image(p, t, c, z): the dictionary lookup, then the memory map of the
\* entry's file at the entry's offset (np.memmap rejects an offset of None)
GetImage(map, key) ==
    IF key \notin DOMAIN map THEN [status |-> "KeyError"]
    ELSE IF map[key][3] = NoOffset THEN [status |-> "TypeError", entry |-> map[key]]
    ELSE [status |-> "ok", entry |-> map[key],
          plane |-> <<map[key][1], map[key][3][1]>>]

LexLess(a, b) ==
    \/ a[1] < b[1]
    \/ a[1] = b[1] /\ a[2] < b[2]
    \/ a[1] = b[1] /\ a[2] = b[2] /\ a[3] < b[3]

\* _create_position_array(pos): the array is registered in position_arrays
\* before the loops fill it, in the order t, c, z; the first failing _get_image
\* ends the call and leaves the cells before it filled
CreatePositionArray(map, h, w, pos) ==
    LET dims  == GetDimensions(map, pos)
        cells == (0..(dims[1] - 1)) \X (0..(dims[2] - 1)) \X (0..(dims[3] - 1))
        img(cell) == GetImage(map, <<pos, cell[1], cell[2], cell[3]>>)
        bad   == {cell \in cells : img(cell).status # "ok"}
        first == CHOOSE b \in bad : \A o \in bad : o = b \/ LexLess(b, o)
        done  == IF bad = {} THEN cells ELSE {cell \in cells : LexLess(cell, first)}
    IN  [status |-> IF bad = {} THEN "ok" ELSE img(first).status,
         array  |-> [shape  |-> <<dims[1], dims[2], dims[3], h, w>>,
                     planes |-> [cell \in done |-> img(cell).plane]]]

\* self.position_arrays[pos] = array
PutArray(arrays, pos, array) ==
    [q \in DOMAIN arrays \cup {pos} |-> IF q = pos THEN array ELSE arrays[q]]

RECURSIVE ExtractAll(_, _, _, _, _, _)
\* __init__: for i in range(self.positions): self._create_position_array(i)
ExtractAll(map, h, w, i, n, arrays) ==
    IF i >= n THEN [status |-> "ok", arrays |-> arrays]
    ELSE LET r == CreatePositionArray(map, h, w, i)
         IN  IF r.status = "ok"
             THEN ExtractAll(map, h, w, i + 1, n, PutArray(arrays, i, r.array))
             ELSE [status |-> r.status, arrays |-> PutArray(arrays, i, r.array)]

\* get_zarr(position): what the call returns or raises, and position_arrays after it
GetZarrCall(map, h, w, arrays, position) ==
    IF position \in DOMAIN arrays
    THEN [status |-> "ok", value |-> arrays[position], arrays |-> arrays]
    ELSE LET r == CreatePositionArray(map, h, w, position)
             after == PutArray(arrays, position, r.array)
         IN  IF r.status = "ok"
             THEN [status |-> "ok", value |-> r.array, arrays |-> after]
             ELSE [status |-> r.status, arrays |-> after]

\* get_array(position): as get_zarr, the array copied into memory by np.array
GetArrayCall(map, h, w, arrays, position) ==
    IF position \in DOMAIN arrays
    THEN [status |-> "ok", value |-> arrays[position], arrays |-> arrays]
    ELSE LET r == CreatePositionArray(map, h, w, position)
             after == PutArray(arrays, position, r.array)
         IN  IF r.status = "ok"
             THEN [status |-> "ok", value |-> r.array, arrays |-> after]
             ELSE [status |-> r.status, arrays |-> after]

(***************************************************************************)
(* The store on disk.  kind: "absent" (nothing at the path), "file" (a     *)
(* regular file), "dir" (a directory that holds no Zarr group) or "group"; *)
(* attrs: the root group's attribute document, key -> value; groups: the   *)
(* paths of the child groups.  An attribute value is a record with a field *)
(* state: "valid", "invalid" (fails schema validation) or "empty" (a falsy *)
(* value such as {}).  docs: the attribute documents of the child groups,  *)
(* path -> (key -> value); arrays: the arrays in the store, path -> shape.  *)
(* A path is the sequence of its segments: <<"A", "1", "0">> is A/1/0.      *)
(***************************************************************************)
RowNames == {"A", "B"}
ColNames == {"1", "2"}

AbsentStore == [kind |-> "absent", attrs |-> << >>, groups |-> {},
                docs |-> << >>, arrays |-> << >>]

EmptyGroup == [kind |-> "group", attrs |-> << >>, groups |-> {},
               docs |-> << >>, arrays |-> << >>]

InvalidDoc == [state |-> "invalid"]

EmptyDoc == [state |-> "empty"]

\* PlateMeta: rows and columns are lists of names, wells a list of WellIndexMeta
PlateDoc(rows, columns, wells) ==
    [state |-> "valid", rows |-> rows, columns |-> columns, wells |-> wells]

\* WellIndexMeta(path=os.path.join(row_name, col_name), row_index, column_index)
WellIndexMeta(row_name, col_name, row_index, col_index) ==
    [path |-> <<row_name, col_name>>, row_index |-> row_index, column_index |-> col_index]

\* NGFFNode._DEFAULT_AXES, each axis by its type
DefaultAxes == <<"time", "channel", "space", "space", "space">>

\* the multiscales and omero values of ImagesMeta: the axes and the dataset
\* paths of multiscales[0], the labels of omero.channels
MultiscalesDoc(axes, paths) == [state |-> "valid", axes |-> axes, datasets |-> paths]

OmeroDoc(labels) == [state |-> "valid", channels |-> labels]

\* zattrs.update({key: value})
SetAttr(attrs, key, value) ==
    [k \in DOMAIN attrs \cup {key} |-> IF k = key THEN value ELSE attrs[k]]

\* zattrs.get(key) is truthy
Truthy(attrs, key) == key \in DOMAIN attrs /\ attrs[key].state # "empty"

\* Exists testing for a Zarr group instead of a path
ExistsAsGroup(st) == st.kind = "group"

\* os.path.exists(store_path)
Exists(st) == st.kind # "absent"

\* IsDir testing that the path exists
IsDirAsExists(st) == st.kind # "absent"

\* os.path.isdir(store_path)
IsDir(st) == st.kind \in {"dir", "group"}

NoNode == [kind |-> "none"]

NoCall == [op |-> "none"]

\* ResolveMode with the two modes of the tuple exchanged
ResolveModeSwapped(st, mode) ==
    IF mode = "a" THEN (IF Exists(st) THEN "w-" ELSE "r+") ELSE mode

\* open_ome_zarr, `mode == "a"`: ("w-", "r+")[int(os.path.exists(store_path))]
ResolveMode(st, mode) ==
    IF mode = "a" THEN (IF Exists(st) THEN "r+" ELSE "w-") ELSE mode

\* _open_store(store_path, mode, version, synchronizer): the status and the
\* store afterwards.  "\n".join(a, b) of the version warning raises TypeError;
\* zarr.DirectoryStore refuses a path that is a file; zarr.open_group with
\* mode r or r+ needs a group, with mode w replaces whatever is there by an
\* empty group, with mode w- creates an empty group unless one is there.
OpenStore(st, mode, version) ==
    IF ~IsDir(st) /\ mode \in {"r", "r+"}
    THEN [status |-> "FileNotFoundError", store |-> st]
    ELSE IF version # "0.4"
    THEN [status |-> "TypeError", store |-> st]
    ELSE IF st.kind = "file"
    THEN [status |-> "RuntimeError", store |-> st]
    ELSE IF mode \in {"r", "r+"}
    THEN [status |-> IF st.kind = "group" THEN "ok" ELSE "RuntimeError", store |-> st]
    ELSE IF mode = "w"
    THEN [status |-> "ok", store |-> EmptyGroup]
    ELSE IF st.kind = "group"
    THEN [status |-> "RuntimeError", store |-> st]
    ELSE [status |-> "ok", store |-> EmptyGroup]

\* open_ome_zarr, from `if layout == "auto":` to the choice of the node class
ResolveLayout(layout, parse_meta, meta_keys) ==
    LET auto == IF ~parse_meta THEN [status |-> "ValueError", cause |-> "layout unspecified"]
                ELSE IF "plate" \in meta_keys THEN [status |-> "ok", layout |-> "hcs"]
                ELSE IF "multiscales" \in meta_keys THEN [status |-> "ok", layout |-> "fov"]
                ELSE [status |-> "KeyError", cause |-> "no layout key"]
        res  == IF layout = "auto" THEN auto ELSE [status |-> "ok", layout |-> layout]
    IN  IF res.status # "ok" THEN res
        ELSE IF res.layout = "fov"
        THEN IF parse_meta /\ "multiscales" \notin meta_keys
             THEN [status |-> "ValueError", cause |-> "layout mismatch"]
             ELSE [status |-> "ok", node |-> "Position"]
        ELSE IF res.layout = "hcs"
        THEN IF parse_meta /\ "plate" \notin meta_keys
             THEN [status |-> "ValueError", cause |-> "layout mismatch"]
             ELSE [status |-> "ok", node |-> "Plate"]
        ELSE [status |-> "ValueError", cause |-> "unknown layout"]

\* the attribute document of the group at `path` (<< >>: the root group)
GroupAttrs(st, path) ==
    IF path = << >> THEN st.attrs
    ELSE IF path \in DOMAIN st.docs THEN st.docs[path]
    ELSE << >>

\* zattrs.update({key: value}) on the group at `path`
SetGroupAttr(st, path, key, value) ==
    IF path = << >> THEN [st EXCEPT !.attrs = SetAttr(@, key, value)]
    ELSE [st EXCEPT !.docs = [q \in DOMAIN @ \cup {path} |->
                                IF q = path THEN SetAttr(GroupAttrs(st, path), key, value)
                                ELSE @[q]]]

\* the child groups and the child arrays of the group at `path`
ChildGroups(st, path) ==
    {g \in st.groups : Len(g) = Len(path) + 1 /\ SubSeq(g, 1, Len(path)) = path}

ChildArrays(st, path) ==
    {a \in DOMAIN st.arrays : Len(a) = Len(path) + 1 /\ SubSeq(a, 1, Len(path)) = path}

\* len(group): zarr counts the members of the group, so that a group without
\* members is falsy
GroupLen(st, path) == Cardinality(ChildGroups(st, path)) + Cardinality(ChildArrays(st, path))

\* the names of groups and arrays in sorted order (the order in which zarr
\* lists the members of a group)
NameOrder == <<"0", "1", "2", "A", "B">>

NameRank(name) == CHOOSE i \in 1..Len(NameOrder) : NameOrder[i] = name

\* next(group.groups()): the first child group of the group at `path`
FirstChildGroup(st, path) ==
    CHOOSE g \in ChildGroups(st, path) :
        \A h \in ChildGroups(st, path) : NameRank(g[Len(g)]) <= NameRank(h[Len(h)])

\* ImagesMeta(multiscales=..., omero=...) validates
ValidImagesMeta(attrs) ==
    /\ Truthy(attrs, "multiscales") /\ Truthy(attrs, "omero")
    /\ attrs["multiscales"].state = "valid"
    /\ attrs["omero"].state = "valid"

\* Position(group, parse_meta, channel_names, axes) over a group whose
\* attribute document is attrs: NGFFNode.__init__ and Position._parse_meta.
\* channel_names << >> stands for None (no _channel_names attribute), axes
\* << >> for None.  overwrite is self._overwrite: overwriting_creation, False
\* unless the caller of open_ome_zarr passes it.
PositionInit(attrs, parse_meta, channel_names, axes, read_only) ==
    IF channel_names = << >> /\ ~parse_meta
    THEN [status |-> "ValueError", cause |-> "channel names"]
    ELSE LET valid == parse_meta /\ ValidImagesMeta(attrs)
         IN  [status |-> "ok",
              node |-> [kind |-> "Position",
                        has_meta |-> valid,
                        metadata |-> IF valid
                                     THEN [multiscales |-> attrs["multiscales"],
                                           omero |-> attrs["omero"]]
                                     ELSE << >>,
                        channel_names |-> IF valid THEN attrs["omero"].channels
                                          ELSE channel_names,
                        axes |-> IF valid THEN attrs["multiscales"].axes
                                 ELSE IF axes # << >> THEN axes
                                 ELSE DefaultAxes,
                        read_only |-> read_only,
                        overwrite |-> FALSE]]

\* Plate._first_pos_attr: the path of the first position of the first well of
\* the first row; << >> when StopIteration ends the search
FirstPosPath(st) ==
    IF ChildGroups(st, << >>) = {} THEN << >>
    ELSE LET row_grp == FirstChildGroup(st, << >>)
         IN  IF ChildGroups(st, row_grp) = {} THEN << >>
             ELSE LET well_grp == FirstChildGroup(st, row_grp)
                  IN  IF ChildGroups(st, well_grp) = {} THEN << >>
                      ELSE FirstChildGroup(st, well_grp)

\* Plate._first_pos_attr("_channel_names"): the channel names of
\* Position(pos_grp); << >> when no position is found or the first position
\* has no _channel_names attribute (AttributeError, caught)
FirstPosNames(st) ==
    IF FirstPosPath(st) = << >> THEN << >>
    ELSE PositionInit(GroupAttrs(st, FirstPosPath(st)), TRUE, << >>, << >>, FALSE)
            .node.channel_names

\* Plate._first_pos_attr("axes"): the axes of Position(pos_grp); << >> when no
\* position is found
FirstPosAxes(st) ==
    IF FirstPosPath(st) = << >> THEN << >>
    ELSE PositionInit(GroupAttrs(st, FirstPosPath(st)), TRUE, << >>, << >>, FALSE).node.axes

\* Position(group=root, parse_meta, channel_names, axes)
NewPosition(st, parse_meta, channel_names, axes, read_only) ==
    PositionInit(st.attrs, parse_meta, channel_names, axes, read_only)

\* Plate(group=root, parse_meta, channel_names, axes): NGFFNode.__init__,
\* Plate._parse_meta (PlateMeta(**plate_meta) is not guarded: a document that
\* fails validation raises), then the empty registries of Plate.__init__
NewPlate(st, parse_meta, channel_names, axes, read_only) ==
    IF channel_names = << >> /\ ~parse_meta
    THEN [status |-> "ValueError", cause |-> "channel names"]
    ELSE IF parse_meta /\ Truthy(st.attrs, "plate") /\ st.attrs["plate"].state # "valid"
    THEN [status |-> "ValidationError", cause |-> "plate metadata"]
    ELSE LET valid == parse_meta /\ Truthy(st.attrs, "plate")
             parsed_axes == IF axes # << >> \/ ~parse_meta THEN axes ELSE FirstPosAxes(st)
         IN  [status |-> "ok",
              node |-> [kind |-> "Plate",
                        has_meta |-> valid,
                        metadata |-> IF valid THEN st.attrs["plate"] ELSE << >>,
                        channel_names |-> IF channel_names # << >> THEN channel_names
                                          ELSE FirstPosNames(st),
                        axes |-> IF parsed_axes # << >> THEN parsed_axes ELSE DefaultAxes,
                        rows |-> << >>,
                        cols |-> << >>,
                        read_only |-> read_only]]

\* open_ome_zarr(store_path, layout, mode, channel_names, axes, version): the
\* outcome (a node kind or the exception raised), the node and the store
\* afterwards
OpenOmeZarr(st, layout, mode, channel_names, axes, version) ==
    LET m          == ResolveMode(st, mode)
        parse_meta == m \in {"r", "r+"}
        fail(status, cause, after) ==
            [status |-> status, cause |-> cause, node |-> NoNode, store |-> after]
    IN  IF m = "w-" /\ Exists(st) THEN fail("FileExistsError", "exists", st)
        ELSE IF m \notin {"r", "r+", "w-", "w"} THEN fail("ValueError", "invalid mode", st)
        ELSE LET opened == OpenStore(st, m, version)
                 root   == opened.store
                 keys   == IF parse_meta THEN DOMAIN root.attrs ELSE {}
                 lay    == ResolveLayout(layout, parse_meta, keys)
                 made   == IF lay.node = "Position"
                           THEN NewPosition(root, parse_meta, channel_names, axes, m = "r")
                           ELSE NewPlate(root, parse_meta, channel_names, axes, m = "r")
             IN  IF opened.status # "ok" THEN fail(opened.status, "open store", root)
                 ELSE IF lay.status # "ok" THEN fail(lay.status, lay.cause, root)
                 ELSE IF made.status # "ok" THEN fail(made.status, made.cause, root)
                 ELSE [status |-> made.node.kind, cause |-> "", node |-> made.node,
                       store |-> root]

\* a value handed to create_well as an index: an int or None
PyInt(n) == [type |-> "int", value |-> n]

PyNone == [type |-> "none"]

\* Plate._auto_idx(name, known): known maps names (str) to indices;
\* known.get(name) finds nothing unless name is a str key, and an index 0
\* found is falsy
AutoIdx(name, known) ==
    LET used == {known[k] : k \in DOMAIN known}
    IN  IF name.type = "str" /\ name.value \in DOMAIN known /\ known[name.value] # 0
        THEN known[name.value]
        ELSE IF used # {} THEN Max(used) + 1 ELSE 0

\* dict[key] = value
PutKey(dict, key, value) ==
    [k \in DOMAIN dict \cup {key} |-> IF k = key THEN value ELSE dict[k]]

\* Plate.create_well(row_name, col_name, row_index, col_index) on plate node n
\* over store st; row_index and col_index are PyInt(n) or PyNone.  The result:
\* the status ("ok" or the exception raised), the node and the store afterwards.
\* group.create_group(name, overwrite=False) raises ContainsGroupError when
\* the group exists; Well(..., **self._child_attrs) raises AttributeError when
\* the plate has no channel names.
CreateWell(n, st, row_name, col_name, row_index, col_index) ==
    LET ri       == AutoIdx(row_index, n.rows)
        ci       == AutoIdx(col_index, n.cols)
        well     == WellIndexMeta(row_name, col_name, ri, ci)
        new_row  == row_name \notin DOMAIN n.rows
        row_fail == new_row /\ (n.read_only \/ <<row_name>> \in st.groups)
        \* the `if row_name not in self._rows` statement
        rows1    == IF new_row THEN PutKey(n.rows, row_name, ri) ELSE n.rows
        meta1    == IF new_row /\ ~n.has_meta
                    THEN PlateDoc(<<row_name>>, <<col_name>>, <<well>>)
                    ELSE IF new_row
                    THEN [n.metadata EXCEPT !.rows = Append(@, row_name),
                                            !.wells = Append(@, well)]
                    ELSE [n.metadata EXCEPT !.wells = Append(@, well)]
        st1      == IF new_row THEN [st EXCEPT !.groups = @ \cup {<<row_name>>}] ELSE st
        \* the `if col_meta not in self.metadata.columns` statement
        new_col  == \A i \in 1..Len(meta1.columns) : meta1.columns[i] # col_name
        meta2    == IF new_col THEN [meta1 EXCEPT !.columns = Append(@, col_name)]
                    ELSE meta1
        cols2    == IF new_col THEN PutKey(n.cols, col_name, ci) ELSE n.cols
        n2       == [n EXCEPT !.has_meta = TRUE, !.metadata = meta2,
                              !.rows = rows1, !.cols = cols2]
        well_fail == n.read_only \/ <<row_name, col_name>> \in st1.groups
        \* row_grp.create_group(col_name), then self.dump_meta()
        st2      == [st1 EXCEPT !.groups = @ \cup {<<row_name, col_name>>},
                                !.attrs = SetAttr(@, "plate", meta2)]
    IN  IF row_fail
        THEN [status |-> IF n.read_only THEN "ReadOnlyError" ELSE "ContainsGroupError",
              node |-> n, store |-> st]
        ELSE IF ~new_row /\ ~n.has_meta
        THEN [status |-> "AttributeError", node |-> n, store |-> st]
        ELSE IF well_fail
        THEN [status |-> IF n.read_only THEN "ReadOnlyError" ELSE "ContainsGroupError",
              node |-> n2, store |-> st1]
        ELSE [status |-> IF n.channel_names = << >> THEN "AttributeError" ELSE "ok",
              node |-> n2, store |-> st2]

\* WellGroupMeta: images is the list of the paths of the ImageMeta records
WellDoc(images) == [state |-> "valid", images |-> images]

\* NGFFNode.__getitem__(key) on the plate n with a well path as the key: the
\* Well node.  zgroup.get(key) of a group without members is falsy;
\* _child_attrs reads self._channel_names; WellGroupMeta(**well_group_meta)
\* of Well._parse_meta is not guarded.
GetWell(n, st, well_path) ==
    IF well_path \notin st.groups \/ GroupLen(st, well_path) = 0
    THEN [status |-> "KeyError"]
    ELSE IF n.channel_names = << >>
    THEN [status |-> "AttributeError"]
    ELSE LET attrs == GroupAttrs(st, well_path)
         IN  IF Truthy(attrs, "well") /\ attrs["well"].state # "valid"
             THEN [status |-> "ValidationError"]
             ELSE [status |-> "ok",
                   well |-> [has_meta |-> Truthy(attrs, "well"),
                             metadata |-> IF Truthy(attrs, "well") THEN attrs["well"]
                                          ELSE << >>]]

\* Well.create_position(name) on a well node of the plate n: the status, the
\* store and the well node afterwards and the Position returned, which is
\* handed the plate's channel name list itself (shared) and no metadata.  The
\* document dumped is the one the well node holds in memory.
WellCreatePosition(n, well, st, well_path, name) ==
    LET pos_path == Append(well_path, name)
        images   == IF well.has_meta THEN Append(well.metadata.images, name)
                    ELSE <<name>>
        st1      == [st EXCEPT !.groups = @ \cup {pos_path}]
        st2      == SetGroupAttr(st1, well_path, "well", WellDoc(images))
    IN  IF n.read_only THEN [status |-> "ReadOnlyError", store |-> st, well |-> well]
        ELSE IF pos_path \in st.groups
        THEN [status |-> "ContainsGroupError", store |-> st, well |-> well]
        ELSE [status |-> "ok", store |-> st2,
              well |-> [well EXCEPT !.has_meta = TRUE, !.metadata = WellDoc(images)],
              position |-> [node |-> PositionInit(<< >>, FALSE, n.channel_names,
                                                  n.axes, n.read_only).node,
                            shared |-> TRUE]]

\* Plate.create_position(row_name, col_name, pos_name): the status, the plate
\* node and the store afterwards, and the Position returned
CreatePosition(n, st, row_name, col_name, pos_name) ==
    LET well_path == <<row_name, col_name>>
        got  == GetWell(n, st, well_path)
        made == CreateWell(n, st, row_name, col_name, PyNone, PyNone)
    IN  IF well_path \in st.groups
        THEN IF got.status # "ok"
             THEN [status |-> got.status, node |-> n, store |-> st]
             ELSE LET r == WellCreatePosition(n, got.well, st, well_path, pos_name)
                  IN  IF r.status # "ok"
                      THEN [status |-> r.status, node |-> n, store |-> r.store]
                      ELSE [status |-> "ok", node |-> n, store |-> r.store,
                            position |-> r.position]
        ELSE IF made.status # "ok"
        THEN [status |-> made.status, node |-> made.node, store |-> made.store]
        ELSE LET r == WellCreatePosition(made.node, [has_meta |-> FALSE, metadata |-> << >>],
                                         made.store, well_path, pos_name)
             IN  IF r.status # "ok"
                 THEN [status |-> r.status, node |-> made.node, store |-> r.store]
                 ELSE [status |-> "ok", node |-> made.node, store |-> r.store,
                       position |-> r.position]

\* NGFFNode.__getitem__(key) on the plate n with a position path as the key:
\* Position(group=znode, parse_meta=True, **self._child_attrs).  The node keeps
\* the plate's channel name list unless its own metadata parses.
GetPosition(n, st, pos_path) ==
    IF pos_path \notin st.groups \/ GroupLen(st, pos_path) = 0
    THEN [status |-> "KeyError"]
    ELSE IF n.channel_names = << >>
    THEN [status |-> "AttributeError"]
    ELSE LET made == PositionInit(GroupAttrs(st, pos_path), TRUE, n.channel_names,
                                  n.axes, n.read_only)
         IN  [status |-> "ok",
              position |-> [node |-> made.node, shared |-> ~made.node.has_meta]]

\* Position._find_axis(axis_type): the index of the first axis of that type,
\* or None
FindAxis(axes, axis_type) ==
    IF \E i \in 1..Len(axes) : axes[i] = axis_type
    THEN PyInt((CHOOSE i \in 1..Len(axes) :
                   /\ axes[i] = axis_type
                   /\ \A j \in 1..(i - 1) : axes[j] # axis_type) - 1)
    ELSE PyNone

\* the truth value of an int or None
PyTruthy(v) == v.type = "int" /\ v.value # 0

\* _pad_shape(shape, target)
PadShape(shape, target) ==
    IF target > Len(shape) THEN [i \in 1..(target - Len(shape)) |-> 1] \o shape
    ELSE shape

\* Position._check_shape(data_shape) of a position with these axes and channel
\* names (<< >>: no _channel_names attribute): "ok" or the exception raised
CheckShape(axes, names, data_shape) ==
    IF Len(data_shape) # Len(axes) THEN "ValueError"
    ELSE IF names = << >> THEN "AttributeError"
    ELSE LET ch_axis == FindAxis(axes, "channel")
         IN  IF PyTruthy(ch_axis) /\ data_shape[ch_axis.value + 1] > Len(names)
             THEN "ValueError"
             ELSE "ok"

\* CreateImageMeta appending the dataset record whether or not the path is
\* listed
CreateImageMetaAppending(pos, names, name) ==
    IF ~pos.has_meta
    THEN [multiscales |-> MultiscalesDoc(pos.axes, <<name>>), omero |-> OmeroDoc(names)]
    ELSE [pos.metadata EXCEPT !.multiscales.datasets = Append(@, name)]

\* Position._create_image_meta(name): the metadata document afterwards; a
\* dataset record is appended unless its path is among the dataset paths
CreateImageMeta(pos, names, name) ==
    IF ~pos.has_meta
    THEN [multiscales |-> MultiscalesDoc(pos.axes, <<name>>), omero |-> OmeroDoc(names)]
    ELSE IF ~\E i \in 1..Len(pos.metadata.multiscales.datasets) :
                 pos.metadata.multiscales.datasets[i] = name
    THEN [pos.metadata EXCEPT !.multiscales.datasets = Append(@, name)]
    ELSE pos.metadata

\* Position.create_image(name, data, check_shape=...) on the position node
\* pos whose group is at `path`, with data of shape data_shape; names is the
\* position's channel name list.  The array is written before the metadata
\* is built; group.array raises ContainsArrayError for a name in use unless
\* the node overwrites, and then replaces what is at the name.
CreateImage(pos, names, st, path, name, data_shape, check_shape) ==
    LET checked  == IF check_shape THEN CheckShape(pos.axes, names, data_shape) ELSE "ok"
        arr_path == Append(path, name)
        under(q) == Len(q) >= Len(arr_path) /\ SubSeq(q, 1, Len(arr_path)) = arr_path
        st1      == [st EXCEPT !.groups = {g \in @ : ~under(g)},
                               !.arrays = [q \in {a \in DOMAIN @ : ~under(a)} \cup {arr_path}
                                             |-> IF q = arr_path THEN data_shape ELSE @[q]]]
        meta     == CreateImageMeta(pos, names, name)
        \* dump_meta
        st2      == SetGroupAttr(SetGroupAttr(st1, path, "multiscales", meta.multiscales),
                                 path, "omero", meta.omero)
    IN  IF checked # "ok" THEN [status |-> checked, pos |-> pos, store |-> st]
        ELSE IF pos.read_only THEN [status |-> "ReadOnlyError", pos |-> pos, store |-> st]
        ELSE IF ~pos.overwrite /\ (arr_path \in DOMAIN st.arrays \/ arr_path \in st.groups)
        THEN [status |-> "ContainsArrayError", pos |-> pos, store |-> st]
        ELSE IF ~pos.has_meta /\ names = << >>
        THEN [status |-> "AttributeError", pos |-> pos, store |-> st1]
        ELSE [status |-> "ok", store |-> st2,
              pos |-> [pos EXCEPT !.has_meta = TRUE, !.metadata = meta]]

\* ResizedShape growing the axis after the channel axis
ResizedShapeNextAxis(shape, ch_ax) ==
    IF ch_ax + 1 < Len(shape)
    THEN [status |-> "ok", shape |-> [shape EXCEPT ![ch_ax + 2] = @ + 1]]
    ELSE IF ch_ax = Len(shape)
    THEN [status |-> "ok", shape |-> PadShape(shape, Len(shape) + 1)]
    ELSE [status |-> "IndexError"]

\* the shape append_channel computes for an image of this shape when the
\* channel axis is at index ch_ax
ResizedShape(shape, ch_ax) ==
    IF ch_ax < Len(shape)
    THEN [status |-> "ok", shape |-> [shape EXCEPT ![ch_ax + 1] = @ + 1]]
    ELSE IF ch_ax = Len(shape)
    THEN [status |-> "ok", shape |-> PadShape(shape, Len(shape) + 1)]
    ELSE [status |-> "IndexError"]

\* the keys in sorted order
SortedKeys(keys) == SelectSeq(NameOrder, LAMBDA key : key \in keys)

\* the loop `for _, img in self.images()` of append_channel over the arrays
\* named keys.  iteritems skips an array whose lookup raises: `not znode` is
\* len(array), which raises for an array of rank 0 and is falsy for one whose
\* first axis is empty.  Array.resize refuses a shape of another rank
\* (ValueError).
RECURSIVE ResizeImages(_, _, _, _)
ResizeImages(st, path, ch_ax, keys) ==
    IF keys = << >> THEN [status |-> "ok", store |-> st]
    ELSE LET arr_path == Append(path, Head(keys))
             shape    == st.arrays[arr_path]
             new      == ResizedShape(shape, ch_ax)
         IN  IF shape = << >> \/ shape[1] = 0
             THEN ResizeImages(st, path, ch_ax, Tail(keys))
             ELSE IF new.status # "ok" THEN [status |-> new.status, store |-> st]
             ELSE IF Len(new.shape) # Len(shape) THEN [status |-> "ValueError", store |-> st]
             ELSE ResizeImages([st EXCEPT !.arrays[arr_path] = new.shape],
                               path, ch_ax, Tail(keys))

\* Position.append_channel(chan_name, resize_arrays) on the position node pos
\* whose group is at `path`; names is the position's channel name list.  The
\* result: the status, the node, the channel name list and the store
\* afterwards.
AppendChannel(pos, names, st, path, chan_name, resize_arrays) ==
    LET names1  == Append(names, chan_name)
        ch_ax   == FindAxis(pos.axes, "channel")
        keys    == SortedKeys({a[Len(a)] : a \in ChildArrays(st, path)})
        resized == IF ~resize_arrays \/ keys = << >> THEN [status |-> "ok", store |-> st]
                   ELSE IF pos.read_only THEN [status |-> "ReadOnlyError", store |-> st]
                   ELSE ResizeImages(st, path, ch_ax.value, keys)
        meta    == [pos.metadata EXCEPT !.omero.channels = Append(@, chan_name)]
        pos2    == [pos EXCEPT !.metadata = meta]
        st2     == SetGroupAttr(SetGroupAttr(resized.store, path, "multiscales",
                                             meta.multiscales),
                                path, "omero", meta.omero)
    IN  IF names = << >>
        THEN [status |-> "AttributeError", pos |-> pos, names |-> names, store |-> st]
        ELSE IF \E i \in 1..Len(names) : names[i] = chan_name
        THEN [status |-> "ValueError", pos |-> pos, names |-> names, store |-> st]
        ELSE IF resize_arrays /\ ch_ax = PyNone
        THEN [status |-> "KeyError", pos |-> pos, names |-> names1, store |-> st]
        ELSE IF resized.status # "ok"
        THEN [status |-> resized.status, pos |-> pos, names |-> names1,
              store |-> resized.store]
        ELSE IF ~pos.has_meta
        THEN [status |-> "AttributeError", pos |-> pos, names |-> names1,
              store |-> resized.store]
        ELSE IF pos.read_only
        THEN [status |-> "PermissionError", pos |-> pos2, names |-> names1,
              store |-> resized.store]
        ELSE [status |-> "ok", pos |-> pos2, names |-> names1, store |-> st2]

\* `key in node` for a Plate, Row or Well node over the group at `path`: the
\* key is among the names of the child groups
Contains(st, path, key) == Append(path, key) \in ChildGroups(st, path)

\* Well.__getitem__(key) on a Well of the plate n: the lookup of
\* NGFFNode.__getitem__ with the well's group as the parent
WellGetItem(n, st, well_path, key) == GetPosition(n, st, Append(well_path, key))

\* Plate.positions(): the paths of the positions yielded.  rows(), wells()
\* and positions() run iteritems, which skips every child whose lookup raises
PositionsYielded(n, st) ==
    LET rows  == {r \in ChildGroups(st, << >>) :
                     GroupLen(st, r) > 0 /\ n.channel_names # << >>}
        wells == UNION {{w \in ChildGroups(st, r) : GetWell(n, st, w).status = "ok"} :
                           r \in rows}
    IN  UNION {{q \in ChildGroups(st, w) : GetPosition(n, st, q).status = "ok"} :
                  w \in wells}

\* a metadata document with its field_count set
WithFieldCount(doc, count) ==
    [f \in DOMAIN doc \cup {"field_count"} |-> IF f = "field_count" THEN count ELSE doc[f]]

\* PlateDumpMeta adding the count of positions to the field_count the
\* document holds
PlateDumpMetaAdding(n, st, field_count) ==
    LET old   == IF "field_count" \in DOMAIN n.metadata THEN n.metadata.field_count ELSE 0
        meta  == IF field_count
                 THEN WithFieldCount(n.metadata, old + Cardinality(PositionsYielded(n, st)))
                 ELSE n.metadata
        n2    == [n EXCEPT !.metadata = meta]
    IN  IF ~n.has_meta THEN [status |-> "AttributeError", node |-> n, store |-> st]
        ELSE IF n.read_only THEN [status |-> "PermissionError", node |-> n2, store |-> st]
        ELSE [status |-> "ok", node |-> n2, store |-> SetGroupAttr(st, << >>, "plate", meta)]

\* Plate.dump_meta(field_count) on the plate node n: the status, the node and
\* the store afterwards.  A node without metadata raises AttributeError, the
\* attributes of a group opened read-only refuse the update.
PlateDumpMeta(n, st, field_count) ==
    LET meta  == IF field_count
                 THEN WithFieldCount(n.metadata, Cardinality(PositionsYielded(n, st)))
                 ELSE n.metadata
        n2    == [n EXCEPT !.metadata = meta]
    IN  IF ~n.has_meta THEN [status |-> "AttributeError", node |-> n, store |-> st]
        ELSE IF n.read_only THEN [status |-> "PermissionError", node |-> n2, store |-> st]
        ELSE [status |-> "ok", node |-> n2, store |-> SetGroupAttr(st, << >>, "plate", meta)]

\* Well.dump_meta() on a well node over the group at `path`
WellDumpMeta(well, read_only, st, path) ==
    IF ~well.has_meta THEN [status |-> "AttributeError", node |-> well, store |-> st]
    ELSE IF read_only THEN [status |-> "PermissionError", node |-> well, store |-> st]
    ELSE [status |-> "ok", node |-> well,
          store |-> SetGroupAttr(st, path, "well", well.metadata)]

\* Position.dump_meta() on a position node over the group at `path`
PositionDumpMeta(pos, st, path) ==
    IF ~pos.has_meta THEN [status |-> "AttributeError", node |-> pos, store |-> st]
    ELSE IF pos.read_only THEN [status |-> "PermissionError", node |-> pos, store |-> st]
    ELSE [status |-> "ok", node |-> pos,
          store |-> SetGroupAttr(SetGroupAttr(st, path, "multiscales",
                                              pos.metadata.multiscales),
                                 path, "omero", pos.metadata.omero)]

\* NGFFNode.__delitem__(key) on a node whose member names are `members`:
\* `if key in self._member_names: del self[key]` enters __delitem__ again
\* with the same key; depth is the number of frames of __delitem__ on the
\* stack, and the interpreter raises RecursionError at its limit.  Nothing is
\* deleted.
RECURSIVE DelItem(_, _, _)
DelItem(members, key, depth) ==
    IF key \notin members THEN [status |-> "ok", frames |-> depth]
    ELSE IF depth >= RecursionLimit THEN [status |-> "RecursionError", frames |-> depth]
    ELSE DelItem(members, key, depth + 1)

\* __init__ up to the call of _gather_index_maps; _set_mm_meta takes frames,
\* channels, slices, height and width from the summary metadata of files[0]
\* (here: one frame, one channel, one slice of 512 x 512)
InitReader ==
    /\ striped \in BOOLEAN
    /\ pc = "gather"
    /\ file = 1
    /\ page = 0
    /\ npages = 0
    /\ tiff_pages = << >>
    /\ coord_map = << >>
    /\ positions = 0
    /\ frames = 1
    /\ channels = 1
    /\ slices = 1
    /\ height = 512
    /\ width = 512
    /\ position_arrays = << >>
    /\ warned = << >>
    /\ store = AbsentStore
    /\ node = NoNode
    /\ last = NoCall
    /\ ncalls = 0
    /\ nappends = 0
    /\ held = << >>

\* one iteration of the page loop of _gather_index_maps: the entry of the
\* page replaces whatever entry the coordinate had, and no warning is issued
GatherPage(coord) ==
    /\ pc = "gather"
    /\ npages < MaxPages
    /\ coord_map' = PutEntry(coord_map, coord, <<file, page, GetByteOffset(striped, page)>>)
    /\ positions' = UpdPositions(coord, positions)
    /\ frames' = UpdFrames(coord, frames)
    /\ channels' = UpdChannels(coord, channels)
    /\ slices' = UpdSlices(coord, slices)
    /\ page' = page + 1
    /\ npages' = npages + 1
    /\ tiff_pages' = Append(tiff_pages, [file |-> file, page |-> page, coord |-> coord,
                                         offset |-> GetByteOffset(striped, page)])
    /\ UNCHANGED <<striped, pc, file, height, width, position_arrays, warned, nvars>>

\* the file loop of _gather_index_maps moves to the next file (every file
\* holds at least one page)
NextFile ==
    /\ pc = "gather"
    /\ page > 0
    /\ npages < MaxPages
    /\ file' = file + 1
    /\ page' = 0
    /\ UNCHANGED <<striped, pc, npages, tiff_pages, coord_map, positions,
                   frames, channels, slices, height, width, position_arrays, warned, nvars>>

\* _gather_index_maps returns and __init__ runs its extract_data branch
FinishInit(extract_data) ==
    /\ pc = "gather"
    /\ page > 0
    /\ LET r == IF extract_data
                THEN ExtractAll(coord_map, height, width, 0, positions, << >>)
                ELSE [status |-> "ok", arrays |-> << >>]
       IN  /\ pc' = IF r.status = "ok" THEN "ready" ELSE "failed"
           /\ position_arrays' = r.arrays
    /\ UNCHANGED <<striped, file, page, npages, tiff_pages, coord_map,
                   positions, frames, channels, slices, height, width, warned, nvars>>

\* a caller calls get_zarr(position)
GetZarr(position) ==
    /\ pc = "ready"
    /\ position_arrays' =
         GetZarrCall(coord_map, height, width, position_arrays, position).arrays
    /\ UNCHANGED <<striped, pc, file, page, npages, tiff_pages,
                   coord_map, positions, frames, channels, slices, height, width, warned, nvars>>

\* a caller calls get_array(position)
GetArray(position) ==
    /\ pc = "ready"
    /\ position_arrays' =
         GetArrayCall(coord_map, height, width, position_arrays, position).arrays
    /\ UNCHANGED <<striped, pc, file, page, npages, tiff_pages,
                   coord_map, positions, frames, channels, slices, height, width, warned, nvars>>

NextReader ==
    \/ \E coord \in Coords : GatherPage(coord)
    \/ NextFile
    \/ \E extract_data \in BOOLEAN : FinishInit(extract_data)
    \/ \E position \in PositionIds : GetZarr(position)
    \/ \E position \in PositionIds : GetArray(position)

\* get_num_positions()
GetNumPositions == positions

\* the reader is not in use
IdleReader ==
    /\ striped = TRUE
    /\ pc = "idle"
    /\ file = 1
    /\ page = 0
    /\ npages = 0
    /\ tiff_pages = << >>
    /\ coord_map = << >>
    /\ positions = 0
    /\ frames = 0
    /\ channels = 0
    /\ slices = 0
    /\ height = 0
    /\ width = 0
    /\ position_arrays = << >>
    /\ warned = << >>

\* no store is in use
IdleNgff ==
    /\ store = AbsentStore
    /\ node = NoNode
    /\ last = NoCall
    /\ ncalls = 0
    /\ nappends = 0
    /\ held = << >>

Modes == {"r", "r+", "a", "w", "w-"}

Layouts == {"auto", "fov", "hcs", "other"}

Versions == {"0.4", "0.1"}

ChannelNameChoices == {<< >>, <<"DAPI">>}

\* a caller that holds no node calls open_ome_zarr on the store path
Open(layout, mode, channel_names, axes, version) ==
    LET r == OpenOmeZarr(store, layout, mode, channel_names, axes, version)
    IN  /\ node = NoNode
        /\ store' = r.store
        /\ node' = r.node
        /\ last' = [op |-> "open", layout |-> layout, mode |-> mode,
                    channel_names |-> channel_names, axes |-> axes, version |-> version,
                    before |-> store, status |-> r.status, cause |-> r.cause]
        /\ UNCHANGED <<ncalls, nappends, held, rvars>>

\* the Well node create_well returns: Well(group, parse_meta=False), which
\* is handed the plate's channel name list itself
NewWell == [node |-> [kind |-> "Well", has_meta |-> FALSE, metadata |-> << >>],
            shared |-> TRUE]

\* a caller that holds no node calls open_ome_zarr(store_path, layout="fov",
\* mode, channel_names, axes, overwriting_creation=True)
OpenOverwriting(mode, channel_names, axes) ==
    LET r == OpenOmeZarr(store, "fov", mode, channel_names, axes, "0.4")
    IN  /\ node = NoNode
        /\ store' = r.store
        /\ node' = IF r.status = "Position" THEN [r.node EXCEPT !.overwrite = TRUE]
                   ELSE r.node
        /\ last' = [op |-> "open", layout |-> "fov", mode |-> mode,
                    channel_names |-> channel_names, axes |-> axes, version |-> "0.4",
                    before |-> store, status |-> r.status, cause |-> r.cause]
        /\ UNCHANGED <<ncalls, nappends, held, rvars>>

\* a caller calls create_well on the open plate and keeps the Well
CallCreateWell(row_name, col_name, row_index, col_index) ==
    /\ node.kind = "Plate"
    /\ ncalls < MaxWellCalls
    /\ LET r == CreateWell(node, store, row_name, col_name, row_index, col_index)
       IN  /\ store' = r.store
           /\ node' = r.node
           /\ held' = IF r.status = "ok"
                      THEN PutKey(held, <<row_name, col_name>>, NewWell)
                      ELSE held
           /\ last' = [op |-> "create_well", row_name |-> row_name, col_name |-> col_name,
                       row_index |-> row_index, col_index |-> col_index,
                       known_rows |-> node.rows, known_cols |-> node.cols,
                       status |-> r.status]
    /\ ncalls' = ncalls + 1
    /\ UNCHANGED <<nappends, rvars>>

PosNames == {"0", "1"}

ImageNames == {"0", "1"}

ChanNames == {"DAPI", "GFP"}

PositionPaths == RowNames \X ColNames \X PosNames

\* a caller calls create_position on the open plate and keeps the Position
CallCreatePosition(row_name, col_name, pos_name) ==
    /\ node.kind = "Plate"
    /\ ncalls < MaxWellCalls
    /\ LET r == CreatePosition(node, store, row_name, col_name, pos_name)
       IN  /\ store' = r.store
           /\ node' = r.node
           /\ held' = IF r.status = "ok"
                      THEN PutKey(held, <<row_name, col_name, pos_name>>, r.position)
                      ELSE held
           /\ last' = [op |-> "create_position", row_name |-> row_name,
                       col_name |-> col_name, pos_name |-> pos_name, status |-> r.status]
    /\ ncalls' = ncalls + 1
    /\ UNCHANGED <<nappends, rvars>>

\* the names of the positions a caller creates through a Well it holds
WellPosNames == {"0", "2"}

\* a caller calls create_position on a Well it holds of the open plate and
\* keeps the Position
CallWellCreatePosition(well_path, name) ==
    /\ node.kind = "Plate"
    /\ well_path \in DOMAIN held
    /\ LET r == WellCreatePosition(node, held[well_path].node, store, well_path, name)
       IN  /\ store' = r.store
           /\ held' = IF r.status = "ok"
                      THEN PutKey([held EXCEPT ![well_path].node = r.well],
                                  Append(well_path, name), r.position)
                      ELSE held
           /\ last' = [op |-> "well_create_position", well_path |-> well_path,
                       pos_name |-> name, status |-> r.status]
    /\ UNCHANGED <<node, ncalls, nappends, rvars>>

\* a caller indexes the open plate with a position path and keeps the Position
CallGetItem(pos_path) ==
    /\ node.kind = "Plate"
    /\ LET r == GetPosition(node, store, pos_path)
       IN  /\ held' = IF r.status = "ok" THEN PutKey(held, pos_path, r.position) ELSE held
           /\ last' = [op |-> "getitem", key |-> pos_path, status |-> r.status]
    /\ UNCHANGED <<store, node, ncalls, nappends, rvars>>

\* the Position node a call is made on: << >> is the root node, a path one of
\* the nodes held; its channel name list
IsTarget(target) ==
    IF target = << >> THEN node.kind = "Position" ELSE target \in DOMAIN held

PosOf(target) == IF target = << >> THEN node ELSE held[target].node

NamesOf(target) ==
    IF target = << >> \/ held[target].shared THEN node.channel_names
    ELSE held[target].node.channel_names

\* a caller calls create_image on a Position
CallCreateImage(target, name, data_shape, check_shape) ==
    /\ IsTarget(target)
    /\ LET r == CreateImage(PosOf(target), NamesOf(target), store, target, name,
                            data_shape, check_shape)
       IN  /\ store' = r.store
           /\ node' = IF target = << >> THEN r.pos ELSE node
           /\ held' = IF target = << >> THEN held ELSE [held EXCEPT ![target].node = r.pos]
           /\ last' = [op |-> "create_image", target |-> target, name |-> name,
                       data_shape |-> data_shape, check_shape |-> check_shape,
                       axes |-> PosOf(target).axes, names |-> NamesOf(target),
                       existed |-> Append(target, name) \in DOMAIN store.arrays,
                       status |-> r.status]
    /\ UNCHANGED <<ncalls, nappends, rvars>>

\* a caller calls append_channel on a Position; list.append changes the list
\* object, which the plate and the other nodes sharing it see
CallAppendChannel(target, chan_name, resize_arrays) ==
    /\ IsTarget(target)
    /\ nappends < MaxAppends
    /\ LET r == AppendChannel(PosOf(target), NamesOf(target), store, target,
                              chan_name, resize_arrays)
       IN  /\ store' = r.store
           /\ node' = IF target = << >> THEN [r.pos EXCEPT !.channel_names = r.names]
                      ELSE IF held[target].shared
                      THEN [node EXCEPT !.channel_names = r.names]
                      ELSE node
           /\ held' = IF target = << >> THEN held
                      ELSE IF held[target].shared
                      THEN [held EXCEPT ![target].node = r.pos]
                      ELSE [held EXCEPT ![target].node =
                                            [r.pos EXCEPT !.channel_names = r.names]]
           /\ last' = [op |-> "append_channel", target |-> target,
                       chan_name |-> chan_name, resize_arrays |-> resize_arrays,
                       status |-> r.status]
    /\ nappends' = nappends + 1
    /\ UNCHANGED <<ncalls, rvars>>

\* a caller calls dump_meta on the root node (target << >>) or on a Well or a
\* Position it holds; field_count is an argument of Plate.dump_meta only
CallDumpMeta(target, field_count) ==
    /\ node.kind \in {"Plate", "Position"}
    /\ target = << >> \/ target \in DOMAIN held
    /\ field_count => (target = << >> /\ node.kind = "Plate")
    /\ LET n == IF target = << >> THEN node ELSE held[target].node
           r == IF n.kind = "Plate" THEN PlateDumpMeta(n, store, field_count)
                ELSE IF n.kind = "Well" THEN WellDumpMeta(n, node.read_only, store, target)
                ELSE PositionDumpMeta(n, store, target)
       IN  /\ store' = r.store
           /\ node' = IF target = << >> THEN r.node ELSE node
           /\ held' = IF target = << >> THEN held ELSE [held EXCEPT ![target].node = r.node]
           /\ last' = [op |-> "dump_meta", target |-> target, field_count |-> field_count,
                       status |-> r.status,
                       repeated |-> /\ last.op = "dump_meta" /\ last.target = target
                                    /\ last.field_count = field_count
                                    /\ last.status = "ok",
                       doc_before |-> GroupAttrs(store, target)]
    /\ UNCHANGED <<ncalls, nappends, rvars>>

\* a caller runs `del node[key]` on the root Position, whose member names
\* are the names of its arrays
CallDelItem(key) ==
    /\ node.kind = "Position"
    /\ LET members == {a[Len(a)] : a \in ChildArrays(store, << >>)}
           r == DelItem(members, key, 1)
       IN  last' = [op |-> "delitem", key |-> key, member |-> key \in members,
                    status |-> r.status, frames |-> r.frames]
    /\ UNCHANGED <<store, node, ncalls, nappends, held, rvars>>

\* a caller calls close() on the root node and drops every node
Close ==
    /\ node.kind # "none"
    /\ node' = NoNode
    /\ held' = << >>
    /\ last' = [op |-> "close"]
    /\ UNCHANGED <<store, ncalls, nappends, rvars>>

(***************************************************************************)
(* Specifications.                                                         *)
(***************************************************************************)
\* the reader over the files of one dataset
SpecReader == InitReader /\ [][NextReader]_vars

\* what may be at the store path before the first call
InitialStores ==
    {AbsentStore,
     [AbsentStore EXCEPT !.kind = "file"],
     [AbsentStore EXCEPT !.kind = "dir"],
     EmptyGroup}
    \cup {[EmptyGroup EXCEPT !.attrs = a, !.groups = {<<"A">>, <<"A", "1">>}] :
            a \in {"plate" :> d : d \in {PlateDoc(<<"A">>, <<"1">>,
                                                 <<WellIndexMeta("A", "1", 0, 0)>>),
                                        InvalidDoc, EmptyDoc}}}
    \cup {[EmptyGroup EXCEPT !.attrs = a] :
            a \in {("multiscales" :> m) @@ ("omero" :> o) :
                     m \in {MultiscalesDoc(DefaultAxes, <<"0">>), InvalidDoc},
                     o \in {OmeroDoc(<<"DAPI">>), EmptyDoc}}}

InitOpen ==
    /\ IdleReader
    /\ store \in InitialStores
    /\ node = NoNode
    /\ last = NoCall
    /\ ncalls = 0
    /\ nappends = 0
    /\ held = << >>

NextOpen ==
    \/ \E layout \in Layouts, mode \in Modes, channel_names \in ChannelNameChoices,
          version \in Versions : Open(layout, mode, channel_names, << >>, version)
    \/ Close

\* open_ome_zarr over whatever is at the store path
SpecOpen == InitOpen /\ [][NextOpen]_vars

IndexChoices == {PyNone} \cup {PyInt(i) : i \in 0..MaxIndex}

InitPlate == IdleReader /\ IdleNgff

NextPlate ==
    \/ \E layout \in {"auto", "hcs"}, mode \in Modes,
          channel_names \in ChannelNameChoices :
            Open(layout, mode, channel_names, << >>, "0.4")
    \/ \E row_name \in RowNames, col_name \in ColNames,
          row_index \in IndexChoices, col_index \in IndexChoices :
            CallCreateWell(row_name, col_name, row_index, col_index)
    \/ Close

\* a plate created, filled with wells, closed and opened again
SpecPlate == InitPlate /\ [][NextPlate]_vars

InitAuto == IdleReader /\ IdleNgff

NextAuto ==
    \/ Open("hcs", "w", <<"DAPI">>, << >>, "0.4")
    \/ \E row_name \in RowNames, col_name \in ColNames :
            CallCreateWell(row_name, col_name, PyNone, PyNone)
    \/ Close

\* plates newly created (mode 'w'), their wells created with no index supplied
SpecAuto == InitAuto /\ [][NextAuto]_vars

\* the axes a caller passes to open_ome_zarr (<< >>: None)
AxesChoices ==
    {<< >>, <<"channel", "space", "space">>, <<"space", "space", "channel">>,
     <<"space", "space">>}

\* the shapes of the data a caller passes to create_image
ShapeChoices == {<<2, 3, 4, 5, 6>>, <<3, 4, 5, 6>>, <<2, 1, 4>>, <<3, 4>>, <<2>>}

InitFov == IdleReader /\ IdleNgff

NextFov ==
    \/ \E mode \in {"a", "r"}, channel_names \in ChannelNameChoices, axes \in AxesChoices :
            Open("fov", mode, channel_names, axes, "0.4")
    \/ \E name \in ImageNames, data_shape \in ShapeChoices, check_shape \in BOOLEAN :
            CallCreateImage(<< >>, name, data_shape, check_shape)
    \/ \E chan_name \in ChanNames, resize_arrays \in BOOLEAN :
            CallAppendChannel(<< >>, chan_name, resize_arrays)
    \/ Close

\* a store that is one position: images created, channels appended, the
\* store closed and opened again
SpecFov == InitFov /\ [][NextFov]_vars

\* the positions of the plate's well A/1
HcsPaths == {"A"} \X {"1"} \X PosNames

InitHcs == IdleReader /\ IdleNgff

NextHcs ==
    \/ \E mode \in {"a", "r"}, channel_names \in ChannelNameChoices :
            Open("hcs", mode, channel_names, << >>, "0.4")
    \/ CallCreateWell("A", "1", PyNone, PyNone)
    \/ \E pos_name \in PosNames : CallCreatePosition("A", "1", pos_name)
    \/ \E name \in WellPosNames : CallWellCreatePosition(<<"A", "1">>, name)
    \/ \E pos_path \in HcsPaths : CallGetItem(pos_path)
    \/ \E target \in HcsPaths : CallCreateImage(target, "0", <<1, 1, 4, 5, 6>>, TRUE)
    \/ \E target \in HcsPaths : CallAppendChannel(target, "GFP", TRUE)
    \/ Close

\* a plate whose wells and positions are created, written to and looked up
SpecHcs == InitHcs /\ [][NextHcs]_vars

InitDump == IdleReader /\ IdleNgff

NextDump ==
    \/ \E mode \in {"a", "r"} : Open("hcs", mode, <<"DAPI">>, << >>, "0.4")
    \/ CallCreateWell("A", "1", PyNone, PyNone)
    \/ \E name \in WellPosNames : CallWellCreatePosition(<<"A", "1">>, name)
    \/ CallCreateImage(<<"A", "1", "0">>, "0", <<1, 1, 4, 5, 6>>, TRUE)
    \/ \E target \in {<< >>, <<"A", "1">>, <<"A", "1", "0">>}, field_count \in BOOLEAN :
            CallDumpMeta(target, field_count)
    \/ Close

\* a plate whose well, positions and image are created and whose nodes dump
\* their metadata
SpecDump == InitDump /\ [][NextDump]_vars

\* the shapes of the data of an image created and created again
ImageShapes == {<<1, 1, 4, 5, 6>>, <<1, 1, 4, 5, 7>>}

InitImages == IdleReader /\ IdleNgff

NextImages ==
    \/ \E mode \in {"a", "r"} : Open("fov", mode, <<"DAPI">>, << >>, "0.4")
    \/ \E mode \in {"a", "r"} : OpenOverwriting(mode, <<"DAPI">>, << >>)
    \/ \E name \in ImageNames, data_shape \in ImageShapes :
            CallCreateImage(<< >>, name, data_shape, TRUE)
    \/ \E key \in ImageNames : CallDelItem(key)
    \/ Close

\* a store that is one position whose images are created, created again
\* (with and without overwriting) and deleted
SpecImages == InitImages /\ [][NextImages]_vars

InitChecked == IdleReader /\ IdleNgff

NextChecked ==
    \/ \E mode \in {"a", "r"}, channel_names \in ChannelNameChoices, axes \in AxesChoices :
            Open("fov", mode, channel_names, axes, "0.4")
    \/ \E name \in ImageNames, data_shape \in ShapeChoices :
            CallCreateImage(<< >>, name, data_shape, TRUE)
    \/ \E chan_name \in ChanNames, resize_arrays \in BOOLEAN :
            CallAppendChannel(<< >>, chan_name, resize_arrays)
    \/ Close

\* a store that is one position, every image created with check_shape=True
SpecChecked == InitChecked /\ [][NextChecked]_vars

(***************************************************************************)
(* Properties of the reader.                                               *)
(***************************************************************************)
\* the pages read that carry coordinate k
PagesAt(k) == {i \in 1..Len(tiff_pages) : tiff_pages[i].coord = k}

\* the largest index value position p's pages carry on axis a (2: frame,
\* 3: channel, 4: slice), plus one
Extent(p, a) == Max({tiff_pages[i].coord[a] : i \in {j \in 1..Len(tiff_pages) :
                                                    tiff_pages[j].coord[1] = p}}) + 1

HasPages(p) == \E i \in 1..Len(tiff_pages) : tiff_pages[i].coord[1] = p

\* C5: the lookup of a coordinate some page carries returns the (file, page,
\* offset) entry of a page that carries it, and the lookup of a coordinate no
\* page carries fails with KeyError.
C5_LookupReturnsRecorded ==
    \A k \in Coords :
        LET r == GetImage(coord_map, k)
        IN  IF PagesAt(k) = {}
            THEN r.status = "KeyError"
            ELSE /\ r.status # "KeyError"
                 /\ \E i \in PagesAt(k) :
                        r.entry = <<tiff_pages[i].file, tiff_pages[i].page,
                                    tiff_pages[i].offset>>

\* a finished index over two files in which one coordinate is carried by a
\* page of each file and another coordinate by no page
C5_Witness ==
    /\ pc = "ready"
    /\ \E k \in Coords : \E i, j \in PagesAt(k) : tiff_pages[i].file # tiff_pages[j].file
    /\ \E k \in Coords : PagesAt(k) = {}

\* the cells (t, c, z) of position p's extent as _create_position_array walks it
ExtentCells(p) ==
    LET dims == GetDimensions(coord_map, p)
    IN  (0..(dims[1] - 1)) \X (0..(dims[2] - 1)) \X (0..(dims[3] - 1))

MissingInExtent(p) ==
    \E cell \in ExtentCells(p) : <<p, cell[1], cell[2], cell[3]>> \notin DOMAIN coord_map

\* C6: when a coordinate inside position p's extent has no index entry, every
\* call of get_zarr(p) and of get_array(p) fails, also after an earlier
\* failed call.
C6_MissingCoordinateAlwaysFails ==
    pc = "ready" =>
        \A p \in PositionIds :
            MissingInExtent(p) =>
                /\ GetZarrCall(coord_map, height, width, position_arrays, p).status # "ok"
                /\ GetArrayCall(coord_map, height, width, position_arrays, p).status # "ok"

\* the index of the scenario of C7: one page for each of positions {0,1},
\* frames {0,1}, channels {0,1} and slice 0
ScenarioIndex7 ==
    [k \in (0..1) \X (0..1) \X (0..1) \X {0} |-> <<1, 0, <<StripOffset(0)>>>>]

\* C7: the array a call of get_zarr(p) returns has the shape (T, C, Z, H, W)
\* of position p's pages, and for every index entry (p, t, c, z) its plane
\* [t, c, z] is the one at the entry's offset in the entry's file; for pages
\* covering positions {0,1}, frames {0,1}, channels {0,1} and slice {0},
\* position 0 has the shape (2, 2, 1, 512, 512).
C7_AssembledArray ==
    pc = "ready" =>
        \A p \in PositionIds :
            LET r == GetZarrCall(coord_map, height, width, position_arrays, p)
            IN  (HasPages(p) /\ r.status = "ok") =>
                    /\ r.value.shape = <<Extent(p, 2), Extent(p, 3), Extent(p, 4),
                                         height, width>>
                    /\ \A k \in DOMAIN coord_map :
                           k[1] = p =>
                               /\ <<k[2], k[3], k[4]>> \in DOMAIN r.value.planes
                               /\ r.value.planes[<<k[2], k[3], k[4]>>]
                                      = <<coord_map[k][1], coord_map[k][3][1]>>
                    /\ GetZarrCall(ScenarioIndex7, 512, 512, << >>, 0).value.shape
                           = <<2, 2, 1, 512, 512>>

\* the index of the scenario of C8: slices {0,1,2} at position 0 and slices
\* {0,1} at position 1
ScenarioIndex8 ==
    [k \in ({0} \X {0} \X {0} \X (0..2)) \cup ({1} \X {0} \X {0} \X (0..1))
        |-> <<1, 0, <<StripOffset(0)>>>>]

\* C8: _get_dimensions(p) is, on the frame, channel and slice axes, the largest
\* index value of position p's own pages plus one; with slices {0,1,2} at
\* position 0 and {0,1} at position 1 the slice extents are 3 and 2.
C8_PerPositionExtent ==
    \A p \in PositionIds :
        HasPages(p) =>
            /\ GetDimensions(coord_map, p) = <<Extent(p, 2), Extent(p, 3), Extent(p, 4)>>
            /\ GetDimensions(ScenarioIndex8, 0)[3] = 3
            /\ GetDimensions(ScenarioIndex8, 1)[3] = 2

(***************************************************************************)
(* Properties of open_ome_zarr.                                            *)
(***************************************************************************)
\* C1: open_ome_zarr with mode 'w-' on a path that exists raises
\* FileExistsError, whatever the layout, channel names and version, and
\* leaves the store as it was.
C1_CreateExclusiveFails ==
    (last.op = "open" /\ last.mode = "w-" /\ last.before.kind # "absent") =>
        /\ last.status = "FileExistsError"
        /\ node = NoNode
        /\ store = last.before

\* a 'w-' call on a group that holds a plate document
C1_Witness ==
    /\ last.op = "open" /\ last.mode = "w-"
    /\ last.before.kind = "group"
    /\ "plate" \in DOMAIN last.before.attrs
    /\ last.status = "FileExistsError"

LayoutFailures == {"layout unspecified", "unknown layout", "layout mismatch"}

\* C2: when open_ome_zarr raises because the layout is 'auto' for a store
\* being created, because the layout name is unknown or because the layout
\* does not match the metadata, the store is as it was before the call.
C2_LayoutFailureLeavesStore ==
    (last.op = "open" /\ last.cause \in LayoutFailures) => store = last.before

\* C3: open_ome_zarr with mode 'a' has the outcome, the node and the effect on
\* the store of mode 'w-' when the path does not exist and of mode 'r+'
\* when it exists.
C3_AppendModeResolution ==
    (last.op = "open" /\ last.mode = "a") =>
        LET r == OpenOmeZarr(last.before, last.layout,
                             IF last.before.kind # "absent" THEN "r+" ELSE "w-",
                             last.channel_names, last.axes, last.version)
        IN  /\ last.status = r.status
            /\ last.cause = r.cause
            /\ node = r.node
            /\ store = r.store

\* a mode 'a' call that opened an existing plate
C3_Witness ==
    /\ last.op = "open" /\ last.mode = "a"
    /\ last.before.kind = "group"
    /\ last.status = "Plate"

\* C4: layout 'auto' with mode r or r+ on an existing store yields a Plate
\* when the root document has a 'plate' key, otherwise a Position when it has
\* a 'multiscales' key, and fails when it has neither; layout 'auto' with a
\* creating mode (w, w-, or 'a' on an absent path) fails.
C4_AutoLayout ==
    (last.op = "open" /\ last.layout = "auto") =>
        LET keys == DOMAIN last.before.attrs
        IN  /\ (last.mode \in {"r", "r+"} /\ last.before.kind = "group") =>
                   /\ "plate" \in keys => last.status = "Plate"
                   /\ ("plate" \notin keys /\ "multiscales" \in keys) =>
                          last.status = "Position"
                   /\ ("plate" \notin keys /\ "multiscales" \notin keys) =>
                          last.status \notin {"Plate", "Position"}
            /\ (last.mode \in {"w", "w-"}
                    \/ (last.mode = "a" /\ last.before.kind = "absent")) =>
                   last.status \notin {"Plate", "Position"}

(***************************************************************************)
(* Properties of Plate.                                                    *)
(***************************************************************************)
WellPaths(doc) == {doc.wells[i].path : i \in 1..Len(doc.wells)}

\* C9: once the wells (A,1), (A,2), (B,1) were created in a new plate and the
\* store is opened again with mode 'r' and layout 'auto', the row registry
\* is {A: 0, B: 1} and the column registry is {1: 0, 2: 1}.
C9_RegistryRoundTrip ==
    (/\ last.op = "open" /\ last.mode = "r" /\ last.layout = "auto"
     /\ node.kind = "Plate" /\ node.has_meta
     /\ WellPaths(node.metadata) = {<<"A", "1">>, <<"A", "2">>, <<"B", "1">>}) =>
        /\ node.rows = ("A" :> 0) @@ ("B" :> 1)
        /\ node.cols = ("1" :> 0) @@ ("2" :> 1)

\* the index _auto_idx is to give on an axis whose registry is `known`
NextIndex(known) ==
    IF DOMAIN known = {} THEN 0 ELSE Max({known[k] : k \in DOMAIN known}) + 1

\* C10: the placement record of a well create_well has created holds the
\* row_index and col_index the caller supplied; for an index not supplied
\* whose name is new on its axis it holds the largest index known on the axis
\* plus one, or 0 when none is known.
C10_WellIndices ==
    (last.op = "create_well" /\ last.status = "ok") =>
        LET w == node.metadata.wells[Len(node.metadata.wells)]
        IN  /\ last.row_index.type = "int" => w.row_index = last.row_index.value
            /\ last.col_index.type = "int" => w.column_index = last.col_index.value
            /\ (last.row_index.type = "none" /\ last.row_name \notin DOMAIN last.known_rows)
                   => w.row_index = NextIndex(last.known_rows)
            /\ (last.col_index.type = "none" /\ last.col_name \notin DOMAIN last.known_cols)
                   => w.column_index = NextIndex(last.known_cols)

\* C11: a create_well call for a new well of a row that already holds a well
\* succeeds, keeps every group of the store, and leaves at most one record
\* of the row's name in the plate document; this holds in a plate reopened
\* from disk as well.
C11_RowGroupReused ==
    [][(/\ last'.op = "create_well"
        /\ node.kind = "Plate" /\ ~node.read_only /\ node.channel_names # << >>
        /\ \E g \in store.groups : Len(g) = 2 /\ g[1] = last'.row_name
        /\ <<last'.row_name, last'.col_name>> \notin store.groups)
       => /\ last'.status = "ok"
          /\ store.groups \subseteq store'.groups
          /\ <<last'.row_name, last'.col_name>> \in store'.groups
          /\ Cardinality({i \in 1..Len(node'.metadata.rows) :
                             node'.metadata.rows[i] = last'.row_name}) = 1]_vars

(***************************************************************************)
(* Properties of the positions of a plate.                                 *)
(***************************************************************************)
\* C12: a create_position call on a writable plate for a position that is not
\* in the store succeeds, whether its well is absent, holds positions or
\* holds none: afterwards the well group and the position group are in the
\* store next to every group that was there, and the well's document lists
\* the position.
C12_CreatePositionSucceeds ==
    [][(/\ last'.op = "create_position"
        /\ node.kind = "Plate" /\ ~node.read_only /\ node.channel_names # << >>
        /\ <<last'.row_name, last'.col_name, last'.pos_name>> \notin store.groups)
       => LET well_path == <<last'.row_name, last'.col_name>>
              well_doc  == GroupAttrs(store', well_path)
          IN  /\ last'.status = "ok"
              /\ store.groups \subseteq store'.groups
              /\ well_path \in store'.groups
              /\ Append(well_path, last'.pos_name) \in store'.groups
              /\ Truthy(well_doc, "well")
              /\ \E i \in 1..Len(well_doc["well"].images) :
                     well_doc["well"].images[i] = last'.pos_name]_vars

\* C16: an append_channel call on one Position of a plate leaves the channel
\* names of the plate and of every other Position held unchanged.
C16_NoAliasing ==
    [][(last'.op = "append_channel" /\ last'.target # << >>)
       => /\ node'.channel_names = node.channel_names
          /\ \A h \in DOMAIN held \ {last'.target} : NamesOf(h)' = NamesOf(h)]_vars

(***************************************************************************)
(* Properties of a Position.                                               *)
(***************************************************************************)
\* C13: in every state a Position that has a metadata document has a channel
\* name list equal to the labels of its OMERO channels, also after an
\* append_channel call that raised.
C13_ChannelLockStep ==
    (node.kind = "Position" /\ node.has_meta) =>
        node.channel_names = node.metadata.omero.channels

\* C14: append_channel on a position with the channel axis at index 1 that
\* holds arrays of shapes (2,3,4,5,6) and (3,4,5,6) leaves them with shapes
\* (2,4,4,5,6) and (4,4,5,6), and the channel name list one longer.
C14_AppendChannelScenario ==
    [][(/\ last'.op = "append_channel" /\ last'.resize_arrays
        /\ node.kind = "Position" /\ node.has_meta /\ ~node.read_only
        /\ FindAxis(node.axes, "channel") = PyInt(1)
        /\ \A i \in 1..Len(node.channel_names) : node.channel_names[i] # last'.chan_name
        /\ store.arrays = (<<"0">> :> <<2, 3, 4, 5, 6>>) @@ (<<"1">> :> <<3, 4, 5, 6>>))
       => /\ store'.arrays = (<<"0">> :> <<2, 4, 4, 5, 6>>) @@ (<<"1">> :> <<4, 4, 5, 6>>)
          /\ Len(node'.channel_names) = Len(node.channel_names) + 1]_vars

C17_ShapeInvariant ==
    node.kind = "Position" =>
        /\ \A a \in ChildArrays(store, << >>) :
               /\ Len(store.arrays[a]) = Len(node.axes)
               /\ FindAxis(node.axes, "channel") # PyNone =>
                      store.arrays[a][FindAxis(node.axes, "channel").value + 1]
                          <= Len(node.channel_names)
        /\ (/\ last.op = "create_image" /\ last.check_shape
            /\ FindAxis(last.axes, "channel") # PyNone
            /\ Len(last.data_shape) = Len(last.axes)
            /\ last.data_shape[FindAxis(last.axes, "channel").value + 1] > Len(last.names))
               => last.status # "ok"

(***************************************************************************)
(* Properties of open_ome_zarr: failures.                                  *)
(***************************************************************************)
\* C18: open_ome_zarr with mode r or r+ on a group whose plate document, or
\* whose multiscales document, is present and fails validation returns the
\* node.
C18_InvalidMetadataTolerated ==
    (/\ last.op = "open" /\ last.mode \in {"r", "r+"} /\ last.version = "0.4"
     /\ last.layout = "auto"
     /\ last.before.kind = "group"
     /\ \/ /\ "plate" \in DOMAIN last.before.attrs
           /\ last.before.attrs["plate"] = InvalidDoc
        \/ /\ "plate" \notin DOMAIN last.before.attrs
           /\ "multiscales" \in DOMAIN last.before.attrs
           /\ last.before.attrs["multiscales"] = InvalidDoc)
        => /\ last.status \in {"Plate", "Position"}
           /\ node.kind = last.status

\* C19: open_ome_zarr with mode r or r+ on a path that is no directory raises
\* FileNotFoundError and leaves the path as it was.
C19_ReadModeNotFound ==
    (last.op = "open" /\ last.mode \in {"r", "r+"} /\ last.before.kind \in {"absent", "file"})
        => /\ last.status = "FileNotFoundError"
           /\ node = NoNode
           /\ store = last.before

\* a mode r+ call on a path that does not exist
C19_Witness ==
    /\ last.op = "open" /\ last.mode = "r+"
    /\ last.before = AbsentStore
    /\ last.status = "FileNotFoundError"
    /\ store = AbsentStore

\* C20: open_ome_zarr with mode r or r+ on a group raises ValueError and
\* returns no node when the layout is 'fov' and the root document has no
\* 'multiscales' key, or the layout is 'hcs' and it has no 'plate' key.
C20_LayoutMismatch ==
    (/\ last.op = "open" /\ last.mode \in {"r", "r+"}
     /\ last.before.kind = "group"
     /\ \/ last.layout = "fov" /\ "multiscales" \notin DOMAIN last.before.attrs
        \/ last.layout = "hcs" /\ "plate" \notin DOMAIN last.before.attrs)
        => /\ last.status = "ValueError"
           /\ node = NoNode

(***************************************************************************)
(* Properties of the documents of a plate and of its wells.                *)
(***************************************************************************)
\* the well paths recorded in the plate document on disk
FlushedWells == IF Truthy(store.attrs, "plate") /\ store.attrs["plate"].state = "valid"
                THEN WellPaths(store.attrs["plate"]) ELSE {}

\* the position names recorded in the document on disk of the well at well_path
FlushedImages(well_path) ==
    LET doc == GroupAttrs(store, well_path)
    IN  IF Truthy(doc, "well") /\ doc["well"].state = "valid"
        THEN {doc["well"].images[i] : i \in 1..Len(doc["well"].images)} ELSE {}

\* C21: when create_well or create_position has returned, the plate document
\* on disk holds the record of the well created and the well document on disk
\* lists the position created; and in every state every well group in the
\* store has its record in the plate document on disk and every position
\* group is listed in its well's document on disk.
C21_FlushedOnReturn ==
    /\ (last.op = "create_well" /\ last.status = "ok") =>
           <<last.row_name, last.col_name>> \in FlushedWells
    /\ (last.op = "create_position" /\ last.status = "ok") =>
           /\ <<last.row_name, last.col_name>> \in FlushedWells
           /\ last.pos_name \in FlushedImages(<<last.row_name, last.col_name>>)
    /\ (last.op = "well_create_position" /\ last.status = "ok") =>
           last.pos_name \in FlushedImages(last.well_path)
    /\ \A g \in store.groups :
           /\ Len(g) = 2 => g \in FlushedWells
           /\ Len(g) = 3 => g[3] \in FlushedImages(SubSeq(g, 1, 2))

(***************************************************************************)
(* Properties of the registries and the indices of a newly created plate.  *)
(***************************************************************************)
\* the registry `known` holds every name of the list `names` of the plate
\* document and gives the names the indices 0, 1, 2, ... in the order of the
\* list, which is the order of first use
RegistryInOrder(known, names) ==
    \A i \in 1..Len(names) : names[i] \in DOMAIN known /\ known[names[i]] = i - 1

RegistriesGood(n) ==
    n.has_meta => /\ RegistryInOrder(n.rows, n.metadata.rows)
                  /\ RegistryInOrder(n.cols, n.metadata.columns)

\* C22: in a newly created plate every successful create_well call with no
\* index supplied keeps the registries good: the row (column) registry holds
\* every row (column) name of the plate document and maps the names, in order
\* of first use, to 0, 1, 2, ...
C22_RegistriesInOrder ==
    [][(/\ last'.op = "create_well" /\ last'.status = "ok"
        /\ node.kind = "Plate" /\ RegistriesGood(node))
       => RegistriesGood(node')]_vars

\* any two records have the same row_index exactly when they have the same
\* row name and the same column_index exactly when they have the same column
\* name
IndicesMatchNames(doc) ==
    \A i, j \in 1..Len(doc.wells) :
        /\ (doc.wells[i].row_index = doc.wells[j].row_index)
               <=> (doc.wells[i].path[1] = doc.wells[j].path[1])
        /\ (doc.wells[i].column_index = doc.wells[j].column_index)
               <=> (doc.wells[i].path[2] = doc.wells[j].path[2])

\* C29: in a newly created plate every successful create_well call with no
\* index supplied keeps the well records such that two records have the same
\* row_index exactly when they have the same row name, and the same
\* column_index exactly when they have the same column name.
C29_IndicesMatchNames ==
    [][(/\ last'.op = "create_well" /\ last'.status = "ok"
        /\ node.kind = "Plate"
        /\ node.has_meta => IndicesMatchNames(node.metadata))
       => IndicesMatchNames(node'.metadata)]_vars

\* C28: a create_well call that raises because the group exists leaves the
\* plate's metadata document in memory as it was, and the document holds no
\* two records of one well path.
C28_FailedCreateWellLeavesDoc ==
    [][(/\ last'.op = "create_well" /\ last'.status = "ContainsGroupError"
        /\ node.kind = "Plate")
       => /\ node'.has_meta = node.has_meta
          /\ node'.metadata = node.metadata
          /\ node'.has_meta =>
                 \A i, j \in 1..Len(node'.metadata.wells) :
                     node'.metadata.wells[i].path = node'.metadata.wells[j].path => i = j]_vars

(***************************************************************************)
(* Properties of the index of the reader.                                  *)
(***************************************************************************)
\* the positions that have index entries
IndexedPositions == {k[1] : k \in DOMAIN coord_map}

\* C24: once the index is built over pages that carry their offset tag,
\* get_num_positions() is the largest position coordinate of the pages plus
\* one, and a reader constructed with extract_data=True holds an array for
\* every position that has index entries.
C24_NumPositions ==
    (striped /\ pc \in {"ready", "failed"}) =>
        /\ GetNumPositions = Max(IndexedPositions) + 1
        /\ \A p \in IndexedPositions :
               ExtractAll(coord_map, height, width, 0, GetNumPositions, << >>).status = "ok"
                   => p \in DOMAIN ExtractAll(coord_map, height, width, 0,
                                              GetNumPositions, << >>).arrays

\* C25: a page without a strip-offset tag makes the index build fail: no
\* index entry has a missing byte offset, and no reader is constructed over
\* pages without the tag.
C25_MissingOffsetFails ==
    /\ \A k \in DOMAIN coord_map : coord_map[k][3] # NoOffset
    /\ (\E i \in 1..Len(tiff_pages) : tiff_pages[i].offset = NoOffset) => pc # "ready"

\* C26: the index holds one entry per coordinate; when two pages (that carry
\* their offset tag) carry one coordinate the entry is that of the page read
\* later and a warning has been issued.
C26_DuplicateSurfaced ==
    \A k \in Coords :
        (striped /\ Cardinality(PagesAt(k)) > 1) =>
            /\ k \in DOMAIN coord_map
            /\ LET i == Max(PagesAt(k))
               IN  coord_map[k] = <<tiff_pages[i].file, tiff_pages[i].page, tiff_pages[i].offset>>
            /\ warned # << >>

(***************************************************************************)
(* Properties of the channel names of a store opened for reading.          *)
(***************************************************************************)
\* the channel names recorded in the store: the OMERO labels of the root
\* position, or of the first position of the plate
RecordedNames(st, kind) ==
    GroupAttrs(st, IF kind = "Plate" THEN FirstPosPath(st) ELSE << >>)["omero"].channels

HasRecordedNames(st, kind) ==
    IF kind = "Plate"
    THEN /\ Truthy(st.attrs, "plate") /\ st.attrs["plate"].state = "valid"
         /\ FirstPosPath(st) # << >>
         /\ ValidImagesMeta(GroupAttrs(st, FirstPosPath(st)))
    ELSE ValidImagesMeta(st.attrs)

\* C27: the node open_ome_zarr returns with mode r or r+ for a store with
\* valid metadata has the channel names recorded in the store, whatever
\* channel names the caller passed.
C27_ChannelNamesIgnored ==
    (/\ last.op = "open" /\ last.mode \in {"r", "r+"}
     /\ last.status \in {"Plate", "Position"}
     /\ HasRecordedNames(last.before, last.status))
        => node.channel_names = RecordedNames(last.before, last.status)

(***************************************************************************)
(* Properties of dump_meta and of the lookup of children.                  *)
(***************************************************************************)
\* C23: when dump_meta is called on a Plate, Well or Position that holds a
\* metadata document, and called again with nothing done in between, the
\* attribute document of the group after the second call is the one after
\* the first call.
C23_DumpMetaIdempotent ==
    (last.op = "dump_meta" /\ last.repeated) =>
        /\ last.status = "ok"
        /\ GroupAttrs(store, last.target) = last.doc_before

\* dump_meta(field_count=True) called twice in succession on a plate of which
\* positions() yields a position
C23_Witness ==
    /\ last.op = "dump_meta" /\ last.repeated /\ last.status = "ok"
    /\ last.target = << >> /\ last.field_count
    /\ node.kind = "Plate" /\ node.metadata.field_count >= 1

\* C30: for a Well the caller holds and every key, `key in well` implies
\* that well[key] returns the Position, also when the position group holds
\* no array; and positions() of the plate yields every position group of the
\* store.
C30_MembershipImpliesRetrieval ==
    (node.kind = "Plate" /\ node.channel_names # << >>) =>
        /\ \A w \in DOMAIN held : \A key \in PosNames \cup WellPosNames :
               (held[w].node.kind = "Well" /\ Contains(store, w, key))
                   => WellGetItem(node, store, w, key).status = "ok"
        /\ PositionsYielded(node, store) = {g \in store.groups : Len(g) = 3}

(***************************************************************************)
(* Properties of the extents of the reader.                                *)
(***************************************************************************)
\* C31: once the index is built (over pages that carry their offset tag),
\* each of the frames, channels and slices values is at least every
\* coordinate the pages carry on its axis; the slices value is at least the
\* largest slice coordinate.
C31_GlobalExtents ==
    (striped /\ pc \in {"ready", "failed"}) =>
        \A i \in 1..Len(tiff_pages) :
            /\ frames >= tiff_pages[i].coord[2]
            /\ channels >= tiff_pages[i].coord[3]
            /\ slices >= tiff_pages[i].coord[4]

\* the index without the entries of the positions other than p
OwnEntries(map, p) == [k \in {j \in DOMAIN map : j[1] = p} |-> map[k]]

\* C32: _get_dimensions(p) is the same for the index and for the index
\* without the entries of the other positions, and it is unchanged when an
\* entry of another position is added or replaced.
C32_PerPositionFrame ==
    \A p \in PositionIds :
        /\ GetDimensions(coord_map, p) = GetDimensions(OwnEntries(coord_map, p), p)
        /\ \A k \in Coords :
               k[1] # p =>
                   GetDimensions(PutEntry(coord_map, k, <<1, 0, <<StripOffset(0)>>>>), p)
                       = GetDimensions(coord_map, p)

\* an index in which positions 0 and 1 both have entries and different extents
C32_Witness ==
    /\ pc = "ready"
    /\ \E k \in DOMAIN coord_map : k[1] = 0
    /\ \E k \in DOMAIN coord_map : k[1] = 1
    /\ GetDimensions(coord_map, 0) # GetDimensions(coord_map, 1)

(***************************************************************************)
(* Properties of the images of a Position.                                 *)
(***************************************************************************)
\* the dataset paths of the multiscales value of an attribute document
DatasetPaths(attrs) ==
    IF Truthy(attrs, "multiscales") /\ attrs["multiscales"].state = "valid"
    THEN attrs["multiscales"].datasets ELSE << >>

\* C33: in every state the dataset paths of the position's document on disk
\* are pairwise distinct and every array of the position has exactly one
\* dataset record in it, also after an image was created again with
\* overwriting; and the document the node holds is the one on disk.
C33_DatasetPathsDistinct ==
    LET paths == DatasetPaths(store.attrs)
    IN  /\ \A i, j \in 1..Len(paths) : paths[i] = paths[j] => i = j
        /\ \A a \in ChildArrays(store, << >>) :
               Cardinality({i \in 1..Len(paths) : paths[i] = a[1]}) = 1
        /\ (node.kind = "Position" /\ node.has_meta) =>
               /\ Truthy(store.attrs, "multiscales")
               /\ store.attrs["multiscales"] = node.metadata.multiscales

\* an image created again, with another shape, by a position that overwrites
C33_Witness ==
    /\ last.op = "create_image" /\ last.status = "ok" /\ last.existed
    /\ node.kind = "Position" /\ node.overwrite
    /\ Len(DatasetPaths(store.attrs)) = 2
    /\ store.arrays[<<last.name>>] = last.data_shape

\* C34: `del node[key]` for a key that is a member of the node returns or
\* raises an error of the node; it does not enter itself again and again
\* until the interpreter's recursion limit ends it.
C34_DelItemTerminates ==
    (last.op = "delitem" /\ last.member) =>
        /\ last.status # "RecursionError"
        /\ last.frames < RecursionLimit

====
